---- MODULE Spec2Model ----
(***************************************************************************)
(* Model of the figure-generation pipelines of lib/prism and scripts:      *)
(* column validation, performance and sample-size preprocessing, score     *)
(* conversion, the scatter plot's statistics, the five-number summary,     *)
(* the timestamped export and the entry points' error handling.            *)
(*                                                                         *)
(* Text is a sequence of one-character strings.  A number read from text   *)
(* is kept exactly, as num / 10^exp; binary floating-point rounding is not *)
(* modelled.                                                               *)
(***************************************************************************)
EXTENDS Integers, Sequences, FiniteSets, TLC

VARIABLES
    text,        \* score conversion: the cell as read from the CSV
    replaced,    \* score conversion: results of successive str.replace calls
    converted,   \* score conversion: results of successive astype(float) calls
    dfColumns,   \* validation: the column names of the dataset
    totalData,   \* validation: the cells of column total_data (when present)
    outcome,     \* validation: what the called function did
    df,          \* performance preprocessing: the caller's dataset (rows)
    prepOut,     \* performance preprocessing: what the call returned or raised
    paired,      \* scatter plot: the aligned rows handed to the renderer
    plot,        \* scatter plot: what the renderer computed
    data,        \* summary: the numeric series
    stats,       \* summary: the five-number summary computed from it
    now,         \* export: the wall clock, in seconds
    dirs,        \* export: the directories that exist
    files,       \* export: the files that exist, each with its last writer
    saves,       \* export: the export calls made so far
    entry,       \* run: the entry point being run
    pc,          \* run: its position
    source,      \* run: the data source it finds
    figure,      \* run: state of its figure
    exc,         \* run: the exception in flight or handled
    printed      \* run: whether main printed an error message

normVars  == <<text, replaced, converted>>
validVars == <<dfColumns, totalData, outcome>>
prepVars  == <<df, prepOut>>
scatVars  == <<paired, plot>>
summVars  == <<data, stats>>
fsVars    == <<now, dirs, files, saves>>
runVars   == <<entry, pc, source, figure, exc, printed>>
vars == <<normVars, validVars, prepVars, scatVars, summVars, fsVars, runVars>>

\* The value a variable holds before the operation that sets it has run.
Unset == [kind |-> "unset"]

NormIdle  == text = <<>> /\ replaced = <<>> /\ converted = <<>>
ValidIdle == dfColumns = {} /\ totalData = <<>> /\ outcome = Unset
PrepIdle  == df = <<>> /\ prepOut = Unset
ScatIdle  == paired = <<>> /\ plot = Unset
SummIdle  == data = <<>> /\ stats = Unset
FsIdle    == now = 0 /\ dirs = {} /\ files = {} /\ saves = <<>>
RunIdle   == /\ entry = Unset /\ pc = "idle" /\ source = Unset
             /\ figure = "none" /\ exc = Unset /\ printed = FALSE

(***************************************************************************)
(* Text and numbers                                                        *)
(***************************************************************************)

\* Longest cell text enumerated for the score conversion.
MaxLen == 4

Digits == {"0", "1", "2", "3", "4", "5", "6", "7", "8", "9"}

DigitValue(c) ==
    CASE c = "0" -> 0 [] c = "1" -> 1 [] c = "2" -> 2 [] c = "3" -> 3
      [] c = "4" -> 4 [] c = "5" -> 5 [] c = "6" -> 6 [] c = "7" -> 7
      [] c = "8" -> 8 [] c = "9" -> 9

RECURSIVE Pow10(_)
Pow10(k) == IF k = 0 THEN 1 ELSE 10 * Pow10(k - 1)

\* The characters of s that are digits, in order.
DigitsOf(s) == SelectSeq(s, LAMBDA c : c \in Digits)

\* The integer a sequence of digits denotes (0 for the empty sequence).
RECURSIVE DigitsValue(_)
DigitsValue(ds) ==
    IF ds = <<>> THEN 0
    ELSE 10 * DigitsValue(SubSeq(ds, 1, Len(ds) - 1)) + DigitValue(ds[Len(ds)])

\* Positions of character c in s.
PositionsOf(s, c) == {i \in 1..Len(s) : s[i] = c}

\* A replace that stops after the first comma, as str.replace(",", ".", 1).
StrReplaceFirstOnly(s) ==
    [i \in 1..Len(s) |->
        IF s[i] = "," /\ \A j \in 1..(i - 1) : s[j] # "," THEN "." ELSE s[i]]

\* str.replace(",", "."): every comma becomes a period.
StrReplace(s) == [i \in 1..Len(s) |-> IF s[i] = "," THEN "." ELSE s[i]]

\* float(s) for text over digits, "." and other characters: digits with at
\* most one ".", at least one digit; anything else raises ValueError.
ParseFloat(s) ==
    IF /\ \A i \in 1..Len(s) : s[i] \in Digits \cup {"."}
       /\ Cardinality(PositionsOf(s, ".")) <= 1
       /\ DigitsOf(s) # <<>>
    THEN [ok  |-> TRUE,
          num |-> DigitsValue(DigitsOf(s)),
          exp |-> IF PositionsOf(s, ".") = {} THEN 0
                  ELSE Len(s) - (CHOOSE i \in PositionsOf(s, ".") : TRUE)]
    ELSE [ok |-> FALSE, num |-> 0, exp |-> 0]

\* Two exact numbers denote the same value.
NumEq(a, b) == a.num * Pow10(b.exp) = b.num * Pow10(a.exp)

(***************************************************************************)
(* Score conversion: col.astype(str).str.replace(",", ".") then            *)
(* .astype(float), applied to one cell.                                    *)
(***************************************************************************)

\* Characters cell texts are drawn from.
TextChars == {"0", "7", "8", ",", "."}

\* How many times the conversion is applied to its own result.
MaxApplications == 2

Texts == UNION {[1..k -> TextChars] : k \in 0..MaxLen}

InitNormalize ==
    /\ text \in Texts
    /\ replaced = <<>>
    /\ converted = <<>>
    /\ ValidIdle /\ PrepIdle /\ ScatIdle /\ SummIdle /\ FsIdle /\ RunIdle

\* One application of the conversion statement: the first to the cell, a
\* later one to the text the previous application produced.
ConvertScore ==
    /\ Len(replaced) < MaxApplications
    /\ LET arg == IF replaced = <<>> THEN text ELSE replaced[Len(replaced)]
           str == StrReplace(arg)
       IN  /\ replaced' = Append(replaced, str)
           /\ converted' = Append(converted, ParseFloat(str))
    /\ UNCHANGED <<text, validVars, prepVars, scatVars, summVars, fsVars, runVars>>

NextNormalize == ConvertScore

SpecNormalize == InitNormalize /\ [][NextNormalize]_vars

\* Claim-side vocabulary: a numeric text has digits and at most one decimal
\* mark, "," or "."; its other spelling uses the other mark; its value is
\* its digits scaled by the number of digits after the mark.
IsNumericText(s) ==
    /\ \A i \in 1..Len(s) : s[i] \in Digits \cup {",", "."}
    /\ Cardinality(PositionsOf(s, ",") \cup PositionsOf(s, ".")) <= 1
    /\ DigitsOf(s) # <<>>

OtherSpelling(s) ==
    [i \in 1..Len(s) |->
        IF s[i] = "," THEN "." ELSE IF s[i] = "." THEN "," ELSE s[i]]

DecimalValue(s) ==
    LET marks == PositionsOf(s, ",") \cup PositionsOf(s, ".")
    IN  [ok  |-> TRUE,
         num |-> DigitsValue(DigitsOf(s)),
         exp |-> IF marks = {} THEN 0 ELSE Len(s) - (CHOOSE i \in marks : TRUE)]

\* C4: the score conversion succeeds on every numeric text written with
\* either decimal mark, gives the value the text denotes, gives the same
\* result for the spelling with the other mark, and applying it to its own
\* result changes nothing (for any text).
C4_NormalizationTotalIdempotent ==
    /\ (Len(converted) >= 1 /\ IsNumericText(text)) =>
          /\ converted[1].ok
          /\ NumEq(converted[1], DecimalValue(text))
          /\ converted[1] = ParseFloat(StrReplace(OtherSpelling(text)))
    /\ Len(replaced) >= 2 =>
          /\ replaced[2] = replaced[1]
          /\ converted[2] = converted[1]

\* C4 witness: "0,87" converted twice, both times to 87/100.
C4_Witness ==
    /\ text = <<"0", ",", "8", "7">>
    /\ Len(converted) = 2
    /\ converted[2].ok /\ converted[2].num = 87 /\ converted[2].exp = 2

(***************************************************************************)
(* Column validation: validate_dataframe and preprocess_sample_size_data.  *)
(***************************************************************************)

\* A cell of a loaded dataset: missing (NaN) or the text of the field.
NA == [na |-> TRUE, s |-> <<>>]
Txt(s) == [na |-> FALSE, s |-> s]

\* Longest required-column list enumerated.
MaxRequired == 3
\* Most rows of column total_data enumerated for validation.
MaxCells == 2

ColumnNames == {"unimodal_best_score", "modalities", "total_data"}

RequiredLists == UNION {[1..k -> ColumnNames] : k \in 0..MaxRequired}

TotalDataCells == {NA, Txt(<<"1", "0">>), Txt(<<"x">>)}

InitValidate ==
    /\ dfColumns \in SUBSET ColumnNames
    /\ totalData \in IF "total_data" \in dfColumns
                     THEN UNION {[1..k -> TotalDataCells] : k \in 0..MaxCells}
                     ELSE {<<>>}
    /\ outcome = Unset
    /\ NormIdle /\ PrepIdle /\ ScatIdle /\ SummIdle /\ FsIdle /\ RunIdle

\* The elements of seq paired with their positions (the row index labels).
Indexed(seq) == [i \in 1..Len(seq) |-> [index |-> i, value |-> seq[i]]]

\* A validation that reports only the first absent column.
MissingColumnsFirstOnly(columns, required_columns) ==
    LET all == SelectSeq(required_columns, LAMBDA col : col \notin columns)
    IN  IF all = <<>> THEN <<>> ELSE <<all[1]>>

\* [col for col in required_columns if col not in df.columns]
MissingColumns(columns, required_columns) ==
    SelectSeq(required_columns, LAMBDA col : col \notin columns)

\* validate_dataframe(df, required_columns)
ValidateDataframe ==
    /\ outcome = Unset
    /\ \E required_columns \in RequiredLists :
         LET missing_columns == MissingColumns(dfColumns, required_columns)
         IN  outcome' = [fn        |-> "validate_dataframe",
                         required  |-> required_columns,
                         raised    |-> IF missing_columns # <<>>
                                       THEN "KeyError" ELSE "none",
                         condition |-> IF missing_columns # <<>>
                                       THEN "missing_columns" ELSE "none",
                         names     |-> missing_columns,
                         series    |-> <<>>]
    /\ UNCHANGED <<dfColumns, totalData, normVars, prepVars, scatVars,
                   summVars, fsVars, runVars>>

\* Series.dropna(): the non-missing cells, each with its index label.
DropNa(series) == SelectSeq(series, LAMBDA e : ~e.value.na)

\* Series.astype(float) on cells read as text: every cell must parse.
AstypeFloatOk(series) == \A i \in 1..Len(series) : ParseFloat(series[i].value.s).ok
AstypeFloat(series) ==
    [i \in 1..Len(series) |->
        [index |-> series[i].index, value |-> ParseFloat(series[i].value.s)]]

\* preprocess_sample_size_data(df) on a dataset with the given columns and
\* total_data cells.
PreprocessSampleSizeDataOf(columns, cells) ==
    LET kept == DropNa(Indexed(cells))
    IN  IF "total_data" \notin columns
        THEN [fn |-> "preprocess_sample_size_data",
              required |-> <<"total_data">>,
              raised |-> "ValueError", condition |-> "missing_columns",
              names |-> <<"total_data">>, series |-> <<>>]
        ELSE IF ~AstypeFloatOk(kept)
        THEN [fn |-> "preprocess_sample_size_data",
              required |-> <<"total_data">>,
              raised |-> "ValueError", condition |-> "conversion",
              names |-> <<>>, series |-> <<>>]
        ELSE [fn |-> "preprocess_sample_size_data",
              required |-> <<"total_data">>,
              raised |-> "none", condition |-> "none",
              names |-> <<>>, series |-> AstypeFloat(kept)]

PreprocessSampleSizeData ==
    /\ outcome = Unset
    /\ outcome' = PreprocessSampleSizeDataOf(dfColumns, totalData)
    /\ UNCHANGED <<dfColumns, totalData, normVars, prepVars, scatVars,
                   summVars, fsVars, runVars>>

NextValidate == ValidateDataframe \/ PreprocessSampleSizeData

SpecValidate == InitValidate /\ [][NextValidate]_vars

Range(seq) == {seq[i] : i \in 1..Len(seq)}

\* C1: a call fails with the missing-columns condition exactly when some
\* required column is absent from the dataset, and the failure then names
\* exactly the absent required columns, all of them; extra columns of the
\* dataset never make it fail.  (preprocess_sample_size_data requires
\* total_data; its only other failure is a cell that does not convert.)
C1_MissingColumnsNamedExactly ==
    outcome # Unset =>
        LET absent == Range(outcome.required) \ dfColumns
        IN  /\ (outcome.condition = "missing_columns") <=> (absent # {})
            /\ outcome.condition = "missing_columns" =>
                  /\ outcome.raised # "none"
                  /\ Range(outcome.names) = absent
            /\ (absent = {} /\ outcome.fn = "validate_dataframe") =>
                  outcome.raised = "none"
            /\ (absent = {} /\ outcome.raised # "none") =>
                  outcome.condition = "conversion"

\* C1 witness: validation of a dataset lacking two of three required
\* columns fails and names both.
C1_Witness ==
    /\ outcome # Unset
    /\ outcome.fn = "validate_dataframe"
    /\ outcome.raised = "KeyError"
    /\ Len(outcome.required) = 3
    /\ Cardinality(Range(outcome.names)) = 2
    /\ Range(outcome.names) \cap dfColumns = {}

(***************************************************************************)
(* Performance preprocessing: preprocess_performance_data (and the same    *)
(* code in scatterplot_perf_comparison.preprocess_data), called with the   *)
(* four column names the entry points pass.                                *)
(***************************************************************************)

\* Most rows of a dataset enumerated for performance preprocessing.
MaxRows == 3

\* required_columns of the performance entry points, in order.
PerfColumns ==
    <<"unimodal_best_score", "multimodal_best_score", "evaluation_metric",
      "modalities">>

Row(u, m, e, c) ==
    [unimodal_best_score |-> u, multimodal_best_score |-> m,
     evaluation_metric |-> e, modalities |-> c]

AUC      == <<"A", "U", "C">>
AUC_ROC  == <<"A", "U", "C", "-", "R", "O", "C">>
Accuracy == <<"A", "c", "c", "u", "r", "a", "c", "y">>
auc      == <<"a", "u", "c">>
F1_AUC   == <<"F", "1", "/", "A", "U", "C">>

MetricCells == {NA, Txt(AUC), Txt(AUC_ROC), Txt(Accuracy), Txt(auc), Txt(F1_AUC)}

\* The rows datasets are built from: fully populated rows with every
\* metric cell, and rows with one missing or unparseable cell.
RowCatalogue ==
    {Row(Txt(<<"0", ".", "6">>), Txt(<<"0", ",", "7">>), e, Txt(<<"M", "R", "I">>)) :
        e \in MetricCells}
    \cup
    {Row(Txt(<<"0", ",", "8">>), Txt(<<"0", ".", "9">>), Txt(AUC), Txt(<<"C", "T">>)),
     Row(NA, Txt(<<"0", ".", "9">>), Txt(AUC), Txt(<<"C", "T">>)),
     Row(Txt(<<"0", ".", "8">>), NA, Txt(AUC_ROC), Txt(<<"C", "T">>)),
     Row(Txt(<<"0", ".", "8">>), Txt(<<"0", ".", "9">>), Txt(AUC), NA),
     Row(Txt(<<"x">>), Txt(<<"0", ".", "9">>), Txt(AUC), Txt(<<"C", "T">>)),
     Row(Txt(<<"x">>), NA, Txt(AUC), Txt(<<"C", "T">>)),
     Row(Txt(<<"0", ".", "8">>), Txt(<<"0", ",", ",", "9">>), Txt(Accuracy),
         Txt(<<"C", "T">>))}

Datasets == UNION {[1..k -> RowCatalogue] : k \in 0..MaxRows}

InitPreprocess ==
    /\ \/ /\ dfColumns = Range(PerfColumns) \cup {"total_data"}
          /\ df \in Datasets
       \/ /\ dfColumns \in {Range(PerfColumns) \ {c} : c \in Range(PerfColumns)}
          /\ df = <<>>
    /\ prepOut = Unset
    /\ totalData = <<>> /\ outcome = Unset
    /\ NormIdle /\ ScatIdle /\ SummIdle /\ FsIdle /\ RunIdle

\* pat occurs in s as a contiguous substring.
Contains(s, pat) ==
    \E i \in 1..(Len(s) - Len(pat) + 1) : SubSeq(s, i, i + Len(pat) - 1) = pat

\* df.dropna(subset=...): the rows with no missing cell in the four columns.
DropNaRows(frame) ==
    SelectSeq(frame, LAMBDA r :
        /\ ~r.value.unimodal_best_score.na
        /\ ~r.value.multimodal_best_score.na
        /\ ~r.value.evaluation_metric.na
        /\ ~r.value.modalities.na)

\* A filter that keeps only the metric cells equal to "AUC".
FilterAucExact(frame) ==
    SelectSeq(frame, LAMBDA r :
        ~r.value.evaluation_metric.na /\ r.value.evaluation_metric.s = AUC)

\* df[df[evaluation_column].str.contains("AUC", na=False)]
FilterAuc(frame) ==
    SelectSeq(frame, LAMBDA r :
        ~r.value.evaluation_metric.na /\ Contains(r.value.evaluation_metric.s, AUC))

\* The .str accessor needs a text column: read_csv gives a column whose
\* cells are all missing a float dtype, and .str then raises AttributeError.
EvaluationColumnIsText(rows) ==
    rows = <<>> \/ \E i \in 1..Len(rows) : ~rows[i].evaluation_metric.na

\* One score cell through astype(str).str.replace(",", ".") and float.
ConvertCell(cell) == ParseFloat(StrReplace(cell.s))

\* .astype(float) over both score columns succeeds.
ScoresConvert(frame) ==
    \A i \in 1..Len(frame) :
        /\ ConvertCell(frame[i].value.unimodal_best_score).ok
        /\ ConvertCell(frame[i].value.multimodal_best_score).ok

\* df[score_columns] after the conversion: both scores of each kept row.
ScoresOf(frame) ==
    [i \in 1..Len(frame) |->
        [index |-> frame[i].index,
         unimodal_best_score |-> ConvertCell(frame[i].value.unimodal_best_score),
         multimodal_best_score |-> ConvertCell(frame[i].value.multimodal_best_score)]]

\* A modality series renumbered from 1, as after reset_index(drop=True).
ModalitiesOfReindexed(frame) ==
    [i \in 1..Len(frame) |-> [index |-> i, value |-> frame[i].value.modalities.s]]

\* df[modality_column]: the modality of each kept row, under its row index.
ModalitiesOf(frame) ==
    [i \in 1..Len(frame) |->
        [index |-> frame[i].index, value |-> frame[i].value.modalities.s]]

Raised(kind, names) ==
    [raised |-> kind, names |-> names, scores |-> <<>>, modalities |-> <<>>]

\* A preprocessing that converts the scores of every complete row before
\* it filters on the metric.
PreprocessConvertFirst(columns, rows) ==
    LET absent   == MissingColumns(columns, PerfColumns)
        dropped  == DropNaRows(Indexed(rows))
        filtered == FilterAuc(dropped)
    IN  IF absent # <<>> THEN Raised("KeyError", absent)
        ELSE IF ~ScoresConvert(dropped) THEN Raised("ValueError", <<>>)
        ELSE IF ~EvaluationColumnIsText(rows) THEN Raised("AttributeError", <<>>)
        ELSE [raised |-> "none", names |-> <<>>,
              scores |-> ScoresOf(filtered),
              modalities |-> ModalitiesOf(filtered)]

\* preprocess_performance_data(df, required_columns[:2], required_columns[2],
\* required_columns[3]) on a dataset with the given columns and rows.
PreprocessPerformanceData(columns, rows) ==
    LET absent   == MissingColumns(columns, PerfColumns)
        dropped  == DropNaRows(Indexed(rows))
        filtered == FilterAuc(dropped)
    IN  IF absent # <<>> THEN Raised("KeyError", absent)
        ELSE IF ~EvaluationColumnIsText(rows) THEN Raised("AttributeError", <<>>)
        ELSE IF ~ScoresConvert(filtered) THEN Raised("ValueError", <<>>)
        ELSE [raised |-> "none", names |-> <<>>,
              scores |-> ScoresOf(filtered),
              modalities |-> ModalitiesOf(filtered)]

PreprocessPerformance ==
    /\ prepOut = Unset
    /\ prepOut' = PreprocessPerformanceData(dfColumns, df)
    /\ UNCHANGED <<df, validVars, normVars, scatVars, summVars, fsVars, runVars>>

NextPreprocess == PreprocessPerformance

SpecPreprocess == InitPreprocess /\ [][NextPreprocess]_vars

\* Claim-side vocabulary: the text holds "AUC" in upper case somewhere.
HasUpperAUC(s) ==
    \E i \in 1..Len(s) :
        i + 2 <= Len(s) /\ s[i] = "A" /\ s[i + 1] = "U" /\ s[i + 2] = "C"

RowComplete(r) ==
    /\ r.unimodal_best_score # NA /\ r.multimodal_best_score # NA
    /\ r.evaluation_metric # NA /\ r.modalities # NA

\* C2: when preprocess_performance_data returns, the rows it returns are
\* exactly the input rows with no missing cell in the four columns whose
\* metric text holds "AUC" (case-sensitive), each once, in input order.
C2_RetainsExactlyAucRows ==
    (prepOut # Unset /\ prepOut.raised = "none") =>
        LET idx == [i \in 1..Len(prepOut.scores) |-> prepOut.scores[i].index]
        IN  /\ Range(idx) = {i \in 1..Len(df) :
                               RowComplete(df[i]) /\ HasUpperAUC(df[i].evaluation_metric.s)}
            /\ \A i, j \in 1..Len(idx) : i < j => idx[i] < idx[j]

\* C2 witness: metrics "AUC-ROC", "Accuracy", "AUC" in fully populated rows
\* keep rows 1 and 3.
C2_Witness ==
    /\ prepOut # Unset /\ prepOut.raised = "none"
    /\ Len(df) = 3
    /\ \A i \in 1..3 : RowComplete(df[i])
    /\ df[1].evaluation_metric.s = AUC_ROC
    /\ df[2].evaluation_metric.s = Accuracy
    /\ df[3].evaluation_metric.s = AUC
    /\ Len(prepOut.scores) = 2
    /\ prepOut.scores[1].index = 1 /\ prepOut.scores[2].index = 3

\* C3: when preprocess_performance_data returns, the score series and the
\* modality series have the same length and the same row index in the same
\* order, and the i-th baseline score, comparison score and modality all
\* come from the input row with that index.
C3_RowAlignment ==
    (prepOut # Unset /\ prepOut.raised = "none") =>
        /\ Len(prepOut.scores) = Len(prepOut.modalities)
        /\ \A i \in 1..Len(prepOut.scores) :
              LET sc  == prepOut.scores[i]
                  md  == prepOut.modalities[i]
              IN  /\ sc.index = md.index
                  /\ sc.index \in 1..Len(df)
                  /\ sc.unimodal_best_score.ok /\ sc.multimodal_best_score.ok
                  /\ NumEq(sc.unimodal_best_score,
                           DecimalValue(df[sc.index].unimodal_best_score.s))
                  /\ NumEq(sc.multimodal_best_score,
                           DecimalValue(df[sc.index].multimodal_best_score.s))
                  /\ md.value = df[md.index].modalities.s

\* C3 witness: a returned pair of series whose rows are not the first rows
\* of the input (a row before them was dropped) and differ in modality.
C3_Witness ==
    /\ prepOut # Unset /\ prepOut.raised = "none"
    /\ Len(prepOut.scores) = 2
    /\ prepOut.scores[1].index = 2 /\ prepOut.modalities[2].index = 3
    /\ prepOut.modalities[1].value # prepOut.modalities[2].value

(***************************************************************************)
(* Exact arithmetic on the numbers read from text.                         *)
(***************************************************************************)

Num(n, e) == [ok |-> TRUE, num |-> n, exp |-> e]

\* numpy's nan: what np.median gives for an empty series.
NaN == [ok |-> FALSE, num |-> 0, exp |-> 0]

MaxExp(a, b) == IF a.exp > b.exp THEN a.exp ELSE b.exp

NumAdd(a, b) ==
    Num(a.num * Pow10(MaxExp(a, b) - a.exp) + b.num * Pow10(MaxExp(a, b) - b.exp),
        MaxExp(a, b))

NumSub(a, b) ==
    Num(a.num * Pow10(MaxExp(a, b) - a.exp) - b.num * Pow10(MaxExp(a, b) - b.exp),
        MaxExp(a, b))

NumLt(a, b) == a.num * Pow10(b.exp) < b.num * Pow10(a.exp)

\* a / 2, exactly.
NumHalf(a) == Num(5 * a.num, a.exp + 1)

\* Ascending sort (numpy sorts or partitions before taking order statistics).
RECURSIVE Insert(_, _)
Insert(x, s) ==
    IF s = <<>> THEN <<x>>
    ELSE IF NumLt(s[1], x) THEN <<s[1]>> \o Insert(x, Tail(s))
    ELSE <<x>> \o s

RECURSIVE SortNums(_)
SortNums(s) == IF s = <<>> THEN <<>> ELSE Insert(s[1], SortNums(Tail(s)))

\* A median that takes the upper of the two middle elements.
MedianUpper(s) ==
    IF s = <<>> THEN NaN ELSE SortNums(s)[(Len(s) \div 2) + 1]

\* np.median: the middle element of the sorted values, or the mean of the
\* two middle elements; nan for no values.
Median(s) ==
    LET sorted == SortNums(s)
        n == Len(s)
    IN  IF n = 0 THEN NaN
        ELSE IF n % 2 = 1 THEN sorted[(n + 1) \div 2]
        ELSE NumHalf(NumAdd(sorted[n \div 2], sorted[(n \div 2) + 1]))

(***************************************************************************)
(* Scatter plot: create_performance_plot (and the same computations in     *)
(* scatterplot_perf_comparison.plot_performance).  The three aligned       *)
(* series are kept as one sequence of rows.                                *)
(***************************************************************************)

\* Most rows handed to the scatter renderer.
MaxPairs == 5

\* Size of the tab20 palette.
Tab20Size == 20

\* The thresholds of the printed statistics: 0.01 and 0.10.
SmallThreshold == Num(1, 2)
LargeThreshold == Num(10, 2)

Pair(u, m, c) == [unimodal |-> Num(u, 2), multimodal |-> Num(m, 2), modality |-> c]

\* The rows series are built from; differences 0.05, 0.02, 0.15, -0.01,
\* 0.12, 0.00 and 0.11.  No difference equals a threshold exactly: there the
\* binary rounding of the two scores decides the comparison (in float64
\* 0.8 - 0.7 > 0.10), which exact arithmetic does not model.
PairCatalogue ==
    {Pair(60, 65, "MRI"), Pair(70, 72, "CT"), Pair(80, 95, "MRI"),
     Pair(90, 89, "PET"), Pair(85, 97, "CT"), Pair(70, 70, "MRI"),
     Pair(70, 81, "PET")}

\* Most distinct modality categories enumerated in one dataset.
MaxCategories == 21

CategoryNames ==
    <<"c01", "c02", "c03", "c04", "c05", "c06", "c07", "c08", "c09", "c10",
      "c11", "c12", "c13", "c14", "c15", "c16", "c17", "c18", "c19", "c20",
      "c21", "c22", "c23", "c24">>

\* Datasets of n rows with n different categories.
ManyCategories ==
    {[i \in 1..n |-> Pair(70, 72, CategoryNames[i])] : n \in 1..MaxCategories}

InitScatter ==
    /\ paired \in UNION {[1..k -> PairCatalogue] : k \in 0..MaxPairs}
                   \cup ManyCategories
    /\ plot = Unset
    /\ NormIdle /\ ValidIdle /\ PrepIdle /\ SummIdle /\ FsIdle /\ RunIdle

\* deltas = multimodality_scores - unimodality_scores
Deltas(rows) ==
    [i \in 1..Len(rows) |-> NumSub(rows[i].multimodal, rows[i].unimodal)]

\* A count of the negative differences only, as (deltas < 0).sum().
CountNegative(deltas, t) ==
    Cardinality({i \in 1..Len(deltas) : NumLt(deltas[i], Num(0, 0))})

\* (deltas < t).sum()
CountBelow(deltas, t) ==
    Cardinality({i \in 1..Len(deltas) : NumLt(deltas[i], t)})

\* (deltas > t).sum()
CountAbove(deltas, t) ==
    Cardinality({i \in 1..Len(deltas) : NumLt(t, deltas[i])})

\* modalities.unique(): the distinct categories in first-seen order.
RECURSIVE Unique(_)
Unique(rows) ==
    IF rows = <<>> THEN <<>>
    ELSE LET init == Unique(SubSeq(rows, 1, Len(rows) - 1))
             last == rows[Len(rows)].modality
         IN  IF last \in Range(init) THEN init ELSE Append(init, last)

\* plt.cm.tab20(np.linspace(0, 1, n))[k]: the palette entry of the k-th
\* category (k from 1), int(x * 20) clipped to the last entry.
PaletteIndex(k, n) ==
    IF n = 1 THEN 0
    ELSE LET i == (Tab20Size * (k - 1)) \div (n - 1)
         IN  IF i > Tab20Size - 1 THEN Tab20Size - 1 ELSE i

\* color_map[modality]: the palette entry zipped with the category.
ColorMap(rows, modality) ==
    LET unique_modalities == Unique(rows)
        k == CHOOSE j \in 1..Len(unique_modalities) : unique_modalities[j] = modality
    IN  PaletteIndex(k, Len(unique_modalities))

\* modalities.value_counts()[modality]
ModalityCount(rows, modality) ==
    Cardinality({i \in 1..Len(rows) : rows[i].modality = modality})

\* The handles of ax.legend: one per category, then the two reference lines.
Legend(rows, median_difference) ==
    LET unique_modalities == Unique(rows)
        n == Len(unique_modalities)
    IN  [k \in 1..n |->
            [kind  |-> "modality",
             label |-> unique_modalities[k],
             count |-> ModalityCount(rows, unique_modalities[k]),
             color |-> PaletteIndex(k, n)]]
        \o <<[kind |-> "line", label |-> "y = x (Equal Performance)",
              count |-> 0, color |-> -1],
             [kind |-> "line", label |-> "Median Threshold",
              count |-> 0, color |-> -1]>>

\* create_performance_plot(unimodality_scores, multimodality_scores, modalities)
CreatePerformancePlotOf(rows) ==
    LET deltas == Deltas(rows)
        median_difference == Median(deltas)
    IN  [deltas |-> deltas,
         median_difference |-> median_difference,
         negative_delta_count |-> CountBelow(deltas, SmallThreshold),
         large_improvement_count |-> CountAbove(deltas, LargeThreshold),
         total_studies |-> Len(rows),
         \* modality_colors = modalities.map(color_map)
         modality_colors |-> [i \in 1..Len(rows) |-> ColorMap(rows, rows[i].modality)],
         \* ax.plot([0.5, 1], [0.5 + median_difference, 1 + median_difference])
         offset_line |-> IF median_difference.ok
                         THEN <<NumAdd(Num(5, 1), median_difference),
                                NumAdd(Num(1, 0), median_difference)>>
                         ELSE <<NaN, NaN>>,
         \* label=f"Median Threshold (delta={median_difference:.2f})"
         label_value |-> median_difference,
         legend |-> Legend(rows, median_difference)]

CreatePerformancePlot ==
    /\ plot = Unset
    /\ plot' = CreatePerformancePlotOf(paired)
    /\ UNCHANGED <<paired, normVars, validVars, prepVars, summVars, fsVars, runVars>>

NextScatter == CreatePerformancePlot

SpecScatter == InitScatter /\ [][NextScatter]_vars

\* Claim-side vocabulary.
ExampleDifferences == <<Num(5, 2), Num(2, 2), Num(15, 2), Num(-1, 2), Num(12, 2)>>

DeltasAre(ds) ==
    /\ Len(plot.deltas) = Len(ds)
    /\ \A i \in 1..Len(ds) : NumEq(plot.deltas[i], ds[i])

\* The rows whose comparison score is below (above) the baseline plus t.
RowsBelow(t) ==
    {i \in 1..Len(paired) : NumLt(paired[i].multimodal, NumAdd(paired[i].unimodal, t))}
RowsAbove(t) ==
    {i \in 1..Len(paired) : NumLt(NumAdd(paired[i].unimodal, t), paired[i].multimodal)}

CountsFollowThresholds ==
    /\ plot.total_studies = Len(paired)
    /\ plot.negative_delta_count = Cardinality(RowsBelow(SmallThreshold))
    /\ plot.large_improvement_count = Cardinality(RowsAbove(LargeThreshold))

\* C5 as stated: the three counts follow the thresholds, and the differences
\* [0.05, 0.02, 0.15, -0.01, 0.12] give 2 below 0.01 and 2 above 0.10.
C5_AsStated ==
    plot # Unset =>
        /\ CountsFollowThresholds
        /\ DeltasAre(ExampleDifferences) =>
              /\ plot.negative_delta_count = 2
              /\ plot.large_improvement_count = 2

\* C5 amended: the renderer reports the number of rows, the number whose
\* difference (comparison minus baseline) is below 0.01 and the number whose
\* difference is above 0.10; the differences [0.05, 0.02, 0.15, -0.01, 0.12]
\* give 1 below 0.01 (only -0.01) and 2 above 0.10.
C5_ThresholdCounts ==
    plot # Unset =>
        /\ CountsFollowThresholds
        /\ DeltasAre(ExampleDifferences) =>
              /\ plot.negative_delta_count = 1
              /\ plot.large_improvement_count = 2

\* C5 witness: the renderer has run on rows with the example differences.
C5_Witness ==
    /\ plot # Unset
    /\ DeltasAre(ExampleDifferences)
    /\ plot.total_studies = 5
    /\ plot.negative_delta_count = 1
    /\ plot.large_improvement_count = 2

\* The k-th smallest of ds, found by counting.
KthSmallest(ds, k) ==
    ds[CHOOSE i \in 1..Len(ds) :
          /\ Cardinality({j \in 1..Len(ds) : NumLt(ds[j], ds[i])}) < k
          /\ k <= Cardinality({j \in 1..Len(ds) : ~NumLt(ds[i], ds[j])})]

\* Twice the median of ds: the middle element doubled, or the sum of the
\* two middle elements.
TwiceMedian(ds) ==
    IF Len(ds) % 2 = 1
    THEN NumAdd(KthSmallest(ds, (Len(ds) + 1) \div 2),
                KthSmallest(ds, (Len(ds) + 1) \div 2))
    ELSE NumAdd(KthSmallest(ds, Len(ds) \div 2),
                KthSmallest(ds, (Len(ds) \div 2) + 1))

\* C6: for a non-empty aligned pair of series the differences are
\* comparison minus baseline row by row, the median difference is their
\* median (middle element, or mean of the two middle elements), the offset
\* line runs from 0.5 + median to 1 + median and the legend label is made
\* from the same median; A=[0.6,0.7,0.8], B=[0.65,0.72,0.95] gives 0.05.
C6_MedianDifference ==
    (plot # Unset /\ paired # <<>>) =>
        /\ Len(plot.deltas) = Len(paired)
        /\ \A i \in 1..Len(paired) :
              NumEq(NumAdd(plot.deltas[i], paired[i].unimodal), paired[i].multimodal)
        /\ plot.median_difference.ok
        /\ NumEq(NumAdd(plot.median_difference, plot.median_difference),
                 TwiceMedian(plot.deltas))
        /\ NumEq(plot.offset_line[1], NumAdd(Num(5, 1), plot.median_difference))
        /\ NumEq(plot.offset_line[2], NumAdd(Num(1, 0), plot.median_difference))
        /\ plot.label_value = plot.median_difference
        /\ DeltasAre(<<Num(5, 2), Num(2, 2), Num(15, 2)>>) =>
              NumEq(plot.median_difference, Num(5, 2))

\* C6 witness: A=[0.6,0.7,0.8], B=[0.65,0.72,0.95] rendered, median 0.05,
\* offset line from 0.55 to 1.05.
C6_Witness ==
    /\ plot # Unset
    /\ Len(paired) = 3
    /\ paired[1].unimodal = Num(60, 2) /\ paired[1].multimodal = Num(65, 2)
    /\ paired[2].unimodal = Num(70, 2) /\ paired[2].multimodal = Num(72, 2)
    /\ paired[3].unimodal = Num(80, 2) /\ paired[3].multimodal = Num(95, 2)
    /\ NumEq(plot.median_difference, Num(5, 2))
    /\ NumEq(plot.offset_line[1], Num(55, 2))
    /\ NumEq(plot.offset_line[2], Num(105, 2))

(***************************************************************************)
(* Five-number summary: the stats dictionary of create_sample_size_plot    *)
(* and boxplot.compute_statistics (the same five numpy calls).             *)
(***************************************************************************)

\* Longest series enumerated for the summary.
MaxData == 4

SampleValues == {Num(10, 0), Num(100, 0), Num(1000, 0), Num(25, 1)}

InitSummary ==
    /\ data \in UNION {[1..k -> SampleValues] : k \in 0..MaxData}
    /\ stats = Unset
    /\ NormIdle /\ ValidIdle /\ PrepIdle /\ ScatIdle /\ FsIdle /\ RunIdle

\* np.min and np.max
Minimum(s) == CHOOSE x \in Range(s) : \A y \in Range(s) : ~NumLt(y, x)
Maximum(s) == CHOOSE x \in Range(s) : \A y \in Range(s) : ~NumLt(x, y)

\* a * r / 100, exactly.
NumPercent(a, r) == Num(a.num * r, a.exp + 2)

\* A percentile taken from the other end, as np.percentile(data, 100 - q).
PercentileFromTop(s, q) ==
    LET sorted == SortNums(s)
        pos == (Len(s) - 1) * (100 - q)
        j == (pos \div 100) + 1
        r == pos % 100
    IN  IF r = 0 THEN sorted[j]
        ELSE NumAdd(sorted[j], NumPercent(NumSub(sorted[j + 1], sorted[j]), r))

\* np.percentile(data, q), linear interpolation between the two order
\* statistics around position (n - 1) * q / 100.
Percentile(s, q) ==
    LET sorted == SortNums(s)
        pos == (Len(s) - 1) * q
        j == (pos \div 100) + 1
        r == pos % 100
    IN  IF r = 0 THEN sorted[j]
        ELSE NumAdd(sorted[j], NumPercent(NumSub(sorted[j + 1], sorted[j]), r))

\* The stats dictionary; np.min raises ValueError on an empty series.
FiveNumberSummary(s) ==
    IF s = <<>>
    THEN [raised |-> "ValueError", Minimum |-> NaN, FirstQuartile |-> NaN,
          Median |-> NaN, ThirdQuartile |-> NaN, Maximum |-> NaN]
    ELSE [raised        |-> "none",
          Minimum       |-> Minimum(s),
          FirstQuartile |-> Percentile(s, 25),
          Median        |-> Median(s),
          ThirdQuartile |-> Percentile(s, 75),
          Maximum       |-> Maximum(s)]

\* The statistics step of create_sample_size_plot / compute_statistics.
ComputeStatistics ==
    /\ stats = Unset
    /\ stats' = FiveNumberSummary(data)
    /\ UNCHANGED <<data, normVars, validVars, prepVars, scatVars, fsVars, runVars>>

NextSummary == ComputeStatistics

SpecSummary == InitSummary /\ [][NextSummary]_vars

\* Claim-side vocabulary.
NumLe(a, b) == ~NumLt(b, a)

\* C7: for a non-empty series the five statistics are ordered, Minimum and
\* Maximum are the smallest and largest elements and Median is the middle
\* value; [10, 100, 1000] gives 10, 100, 1000.
C7_FiveNumberOrdering ==
    (stats # Unset /\ data # <<>>) =>
        /\ stats.raised = "none"
        /\ NumLe(stats.Minimum, stats.FirstQuartile)
        /\ NumLe(stats.FirstQuartile, stats.Median)
        /\ NumLe(stats.Median, stats.ThirdQuartile)
        /\ NumLe(stats.ThirdQuartile, stats.Maximum)
        /\ NumEq(stats.Minimum, KthSmallest(data, 1))
        /\ NumEq(stats.Maximum, KthSmallest(data, Len(data)))
        /\ NumEq(NumAdd(stats.Median, stats.Median), TwiceMedian(data))
        /\ data = <<Num(10, 0), Num(100, 0), Num(1000, 0)>> =>
              /\ NumEq(stats.Minimum, Num(10, 0))
              /\ NumEq(stats.Median, Num(100, 0))
              /\ NumEq(stats.Maximum, Num(1000, 0))

\* C7 witness: the summary of [10, 100, 1000], with quartiles strictly
\* between the minimum, the median and the maximum.
C7_Witness ==
    /\ stats # Unset
    /\ data = <<Num(10, 0), Num(100, 0), Num(1000, 0)>>
    /\ NumEq(stats.Minimum, Num(10, 0))
    /\ NumEq(stats.FirstQuartile, Num(55, 0))
    /\ NumEq(stats.Median, Num(100, 0))
    /\ NumEq(stats.ThirdQuartile, Num(550, 0))
    /\ NumEq(stats.Maximum, Num(1000, 0))

(***************************************************************************)
(* Export: utils.save_figure, boxplot.save_figure,                         *)
(* prismadiagram.save_figure and the save steps of                         *)
(* scatterplot_perf_comparison.plot_performance.  A file is a record of    *)
(* its path (dir, base, stamp, ext), the export call that wrote it last    *)
(* (by) and the clock reading that call's timestamp was taken at (at).     *)
(***************************************************************************)

\* Most export calls made in one behaviour.
MaxSaves == 2
\* Longest time, in seconds, writing one file takes.
MaxWriteSeconds == 1

SecondsPerMinute == 60

\* Time passing before a call: none, a second, a minute.
Gaps == {0, 1, SecondsPerMinute}

\* The export functions with the arguments their callers pass: the strftime
\* format, the order of the two savefig calls, directory and base name.
ExportCalls ==
    {[fn |-> "utils.save_figure", fmt |-> "%Y%m%d_%H%M%S",
      order |-> <<"svg", "png">>, output_dir |-> d.dir, base |-> d.base] :
        d \in {[dir |-> "figures/figure3/saved_fig", base |-> "performance_plot"],
               [dir |-> "figures/figure4/saved_fig", base |-> "violinplot_samplesize"],
               [dir |-> "figures/figure1/figures", base |-> "prisma_flowchart"]}}
    \cup
    {[fn |-> "boxplot.save_figure", fmt |-> "%Y%m%d_%H%M",
      order |-> <<"svg", "png">>, output_dir |-> "lib/prism/saved_fig",
      base |-> "violinplot_samplesize"],
     [fn |-> "prismadiagram.save_figure", fmt |-> "%Y%m%d_%H%M",
      order |-> <<"svg", "png">>, output_dir |-> "lib/prism/figures",
      base |-> "prisma_flowchart"],
     [fn |-> "plot_performance", fmt |-> "%Y%m%d_%H%M%S",
      order |-> <<"png", "svg">>, output_dir |-> "lib/prism/saved_fig",
      base |-> "performance_plot"]}

\* How a savefig call can end: both succeed, the first raises, the second
\* raises (an OSError from the file system).
WriteFailures == {"none", "first", "second"}

\* A timestamp that drops the minutes, as strftime("%Y%m%d_%H").
StrftimeHourOnly(fmt, t) ==
    <<t \div (SecondsPerMinute * SecondsPerMinute)>>

\* datetime.now().strftime(fmt) at clock reading t: the minute, and with %S
\* the second within it.
Strftime(fmt, t) ==
    IF fmt = "%Y%m%d_%H%M%S"
    THEN <<t \div SecondsPerMinute, t % SecondsPerMinute>>
    ELSE <<t \div SecondsPerMinute>>

\* A second file named from a timestamp taken again after the first write.
StampTakenAgain(timestamp, later) == later

\* Both file names are built from the one timestamp variable of the call.
StampOfSecondFile(timestamp, later) == timestamp

Path(dir, base, stamp, ext) == [dir |-> dir, base |-> base, stamp |-> stamp, ext |-> ext]

PathOf(f) == Path(f.dir, f.base, f.stamp, f.ext)

\* fig.savefig(path): the file at path is created or replaced.
WriteFile(fs, path, k, t) ==
    {f \in fs : PathOf(f) # path}
    \cup {[dir |-> path.dir, base |-> path.base, stamp |-> path.stamp,
           ext |-> path.ext, by |-> k, at |-> t]}

\* One export call: gap seconds after the previous event, each write taking
\* d seconds, ending as fail says.
Export(call, gap, d, fail) ==
    LET t0        == now + gap
        timestamp == Strftime(call.fmt, t0)
        k         == Len(saves) + 1
        p1        == Path(call.output_dir, call.base, timestamp, call.order[1])
        p2        == Path(call.output_dir, call.base,
                          StampOfSecondFile(timestamp, Strftime(call.fmt, t0 + d)),
                          call.order[2])
        written   == IF fail = "first" THEN <<>>
                     ELSE IF fail = "second" THEN <<p1>> ELSE <<p1, p2>>
        fs1       == IF fail = "first" THEN files ELSE WriteFile(files, p1, k, t0)
        fs2       == IF fail = "none" THEN WriteFile(fs1, p2, k, t0) ELSE fs1
    IN  /\ now' = t0 + (IF fail = "first" THEN 0
                        ELSE IF fail = "second" THEN d ELSE d + d)
        /\ dirs' = dirs \cup {call.output_dir}
        /\ files' = fs2
        /\ saves' = Append(saves, [call |-> call, at |-> t0,
                                   dir_existed |-> call.output_dir \in dirs,
                                   raised |-> IF fail = "none" THEN "none" ELSE "OSError",
                                   written |-> written])

InitExport ==
    /\ now = 0 /\ dirs \in {{}, {"lib/prism/saved_fig"}} /\ files = {} /\ saves = <<>>
    /\ NormIdle /\ ValidIdle /\ PrepIdle /\ ScatIdle /\ SummIdle /\ RunIdle

SaveFigure ==
    /\ Len(saves) < MaxSaves
    /\ \E call \in ExportCalls, gap \in Gaps, d \in {0, MaxWriteSeconds},
          fail \in WriteFailures :
         /\ (fail # "none" => d = 0)
         /\ Export(call, gap, d, fail)
    /\ UNCHANGED <<normVars, validVars, prepVars, scatVars, summVars, runVars>>

NextExport == SaveFigure

SpecExport == InitExport /\ [][NextExport]_vars

\* The files the k-th export call wrote that no later call has replaced.
FilesBy(k) == {f \in files : f.by = k}

\* C8: every export call has created its output directory, and every call
\* that returned wrote exactly two files, one .svg and one .png, in that
\* directory, whose paths differ in the extension only (one timestamp per
\* call, also when time passes between the two writes).
C8_ExportWritesPair ==
    \A k \in 1..Len(saves) :
        LET s == saves[k]
        IN  /\ s.call.output_dir \in dirs
            /\ FilesBy(k) \subseteq
                  {f \in files : \E i \in 1..Len(s.written) : PathOf(f) = s.written[i]}
            /\ s.raised = "none" =>
                  /\ Len(s.written) = 2
                  /\ {s.written[1].ext, s.written[2].ext} = {"svg", "png"}
                  /\ s.written[1].dir = s.call.output_dir
                  /\ [s.written[1] EXCEPT !.ext = "x"] = [s.written[2] EXCEPT !.ext = "x"]
                  /\ \A i \in 1..2 : \E f \in files : PathOf(f) = s.written[i]
                  /\ k = Len(saves) => Cardinality(FilesBy(k)) = 2

\* C8 witness: a call that returned, found no output directory, took a
\* second per write, and left its two files.
C8_Witness ==
    /\ Len(saves) = 1
    /\ saves[1].raised = "none"
    /\ ~saves[1].dir_existed
    /\ saves[1].call.fn = "utils.save_figure"
    /\ now = saves[1].at + 2
    /\ Cardinality(FilesBy(1)) = 2

\* C9 as stated: no step writes a path that an earlier export call wrote
\* (every file keeps its writer).
C9_AsStated == [][\A f \in files : f \in files']_vars

\* Two clock readings that the format prints alike.
SameStampTime(fmt, t1, t2) ==
    IF fmt = "%Y%m%d_%H%M%S" THEN t1 = t2
    ELSE t1 \div SecondsPerMinute = t2 \div SecondsPerMinute

\* C9 amended: no file is ever removed, and a call replaces a file of an
\* earlier call only when it is the same export with the same directory and
\* base name and both timestamps were taken in the same minute
\* (boxplot.save_figure, prismadiagram.save_figure) or the same second
\* (utils.save_figure, plot_performance); calls whose timestamps differ at
\* that granularity never overwrite each other.
C9_OverwriteOnlySameStamp ==
    [][\A f \in files :
          /\ \E g \in files' : PathOf(g) = PathOf(f)
          /\ \A g \in files' :
                (PathOf(g) = PathOf(f) /\ g.by # f.by) =>
                    /\ saves'[g.by].call = saves[f.by].call
                    /\ SameStampTime(saves[f.by].call.fmt, f.at, g.at)]_vars

\* C9 witness: two runs of boxplot's export a second apart, in the same
\* minute; the files of the first are gone, replaced by the second's.
C9_Witness ==
    /\ Len(saves) = 2
    /\ saves[1].call.fn = "boxplot.save_figure"
    /\ saves[2].call = saves[1].call
    /\ saves[1].raised = "none" /\ saves[2].raised = "none"
    /\ saves[2].at > saves[1].at
    /\ FilesBy(1) = {}
    /\ Cardinality(FilesBy(2)) = 2

(***************************************************************************)
(* PRISMA flowchart: create_box and create_prisma_diagram.  Coordinates    *)
(* are exact decimals in the axes' data units.                             *)
(***************************************************************************)

Point(x, y) == [x |-> x, y |-> y]

\* width: float = 4, height: float = 1.8
DefaultWidth  == Num(4, 0)
DefaultHeight == Num(18, 1)

\* The rectangle create_box adds to the axes.
BoxPatch(x, y, width, height) ==
    [x |-> x, y |-> y, width |-> width, height |-> height]

\* The tuple create_box returns:
\* (center, top_center, bottom_center, right_center, left_center).
CreateBox(x, y, width, height) ==
    <<Point(NumAdd(x, NumHalf(width)), NumAdd(y, NumHalf(height))),
      Point(NumAdd(x, NumHalf(width)), NumAdd(y, height)),
      Point(NumAdd(x, NumHalf(width)), y),
      Point(NumAdd(x, width), NumAdd(y, NumHalf(height))),
      Point(x, NumAdd(y, NumHalf(height)))>>

\* The create_box calls of create_prisma_diagram: name, x, y, width, height.
BoxCalls ==
    <<[name |-> "identification", x |-> Num(2, 0), y |-> Num(12, 0),
       width |-> DefaultWidth, height |-> DefaultHeight],
      [name |-> "duplicates_removed", x |-> Num(8, 0), y |-> Num(12, 0),
       width |-> DefaultWidth, height |-> DefaultHeight],
      [name |-> "eligibility_title_abstract", x |-> Num(2, 0), y |-> Num(93, 1),
       width |-> DefaultWidth, height |-> DefaultHeight],
      [name |-> "excluded_title_abstract", x |-> Num(8, 0), y |-> Num(61, 1),
       width |-> Num(6, 0), height |-> Num(5, 0)],
      [name |-> "eligibility_full_text", x |-> Num(2, 0), y |-> Num(42, 1),
       width |-> DefaultWidth, height |-> DefaultHeight],
      [name |-> "excluded_full_text", x |-> Num(8, 0), y |-> Num(1, 0),
       width |-> Num(6, 0), height |-> Num(5, 0)],
      [name |-> "included", x |-> Num(2, 0), y |-> Num(1, 0),
       width |-> DefaultWidth, height |-> DefaultHeight]>>

BoxNames == {BoxCalls[i].name : i \in 1..Len(BoxCalls)}

BoxCallOf(name) == CHOOSE c \in Range(BoxCalls) : c.name = name

\* ax.annotate("", xy=head, xytext=tail, arrowprops=...): an arrow drawn
\* from xytext to xy.
Annotate(xy, xytext) == [xy |-> xy, xytext |-> xytext]

\* create_prisma_diagram(): the patches on the axes, the box_positions
\* dictionary and the arrows, in the order of the annotate calls.
CreatePrismaDiagram ==
    LET box_positions ==
            [n \in BoxNames |->
                CreateBox(BoxCallOf(n).x, BoxCallOf(n).y,
                          BoxCallOf(n).width, BoxCallOf(n).height)]
    IN  [kind |-> "prisma",
         boxes |-> [n \in BoxNames |->
                       BoxPatch(BoxCallOf(n).x, BoxCallOf(n).y,
                                BoxCallOf(n).width, BoxCallOf(n).height)],
         box_positions |-> box_positions,
         arrows |->
            <<Annotate(box_positions["identification"][3],
                       box_positions["identification"][3]),
              Annotate(box_positions["eligibility_title_abstract"][2],
                       box_positions["identification"][3]),
              Annotate(box_positions["eligibility_full_text"][2],
                       box_positions["eligibility_title_abstract"][3]),
              Annotate(box_positions["included"][2],
                       box_positions["eligibility_full_text"][3]),
              Annotate(box_positions["duplicates_removed"][5],
                       box_positions["identification"][4]),
              Annotate(Point(Num(8, 0), Num(10, 0)), Point(Num(6, 0), Num(10, 0))),
              Annotate(Point(Num(8, 0), Num(5, 0)), Point(Num(6, 0), Num(5, 0)))>>]

(***************************************************************************)
(* Entry points: the main functions of scripts/generate_*.py and of        *)
(* lib/prism/boxplot.py, prismadiagram.py and                              *)
(* scatterplot_perf_comparison.py, one statement group per step.           *)
(***************************************************************************)

ExportCallOf(fn, dir, base) ==
    CHOOSE c \in ExportCalls : c.fn = fn /\ c.output_dir = dir /\ c.base = base

\* name, what it reads, whether its body is inside try/except, whether it
\* validates columns itself, and the export it ends with.
EntryPoints ==
    {[name |-> "generate_performance_plot.main", kind |-> "performance",
      try |-> TRUE, validates |-> FALSE,
      export |-> ExportCallOf("utils.save_figure", "figures/figure3/saved_fig",
                              "performance_plot")],
     [name |-> "generate_sample_size_plot.main", kind |-> "sample",
      try |-> TRUE, validates |-> FALSE,
      export |-> ExportCallOf("utils.save_figure", "figures/figure4/saved_fig",
                              "violinplot_samplesize")],
     [name |-> "generate_prisma.main", kind |-> "prisma",
      try |-> FALSE, validates |-> FALSE,
      export |-> ExportCallOf("utils.save_figure", "figures/figure1/figures",
                              "prisma_flowchart")],
     [name |-> "boxplot.main", kind |-> "sample",
      try |-> FALSE, validates |-> FALSE,
      export |-> ExportCallOf("boxplot.save_figure", "lib/prism/saved_fig",
                              "violinplot_samplesize")],
     [name |-> "prismadiagram.main", kind |-> "prisma",
      try |-> FALSE, validates |-> FALSE,
      export |-> ExportCallOf("prismadiagram.save_figure", "lib/prism/figures",
                              "prisma_flowchart")],
     [name |-> "scatterplot_perf_comparison.main", kind |-> "performance",
      try |-> TRUE, validates |-> TRUE,
      export |-> ExportCallOf("plot_performance", "lib/prism/saved_fig",
                              "performance_plot")]}

\* except (FileNotFoundError, KeyError, ValueError)
Caught == {"FileNotFoundError", "KeyError", "ValueError"}

AllColumns == Range(PerfColumns) \cup {"total_data"}

NoFile == [exists |-> FALSE, columns |-> {}, rows |-> <<>>, total |-> <<>>]

Table(columns, rows, total) ==
    [exists |-> TRUE, columns |-> columns, rows |-> rows, total |-> total]

\* The data sources a run may find: no CSV file; a file without the
\* modalities and total_data columns; a clean file; a file with a score and
\* a sample size that do not parse; a file with rows and cells the cleaning
\* removes; a file whose metric and sample-size cells are all missing; a
\* file with a header and no rows.
RunSources ==
    {NoFile,
     Table(AllColumns \ {"modalities", "total_data"}, <<>>, <<>>),
     Table(AllColumns,
           <<Row(Txt(<<"0", ".", "6">>), Txt(<<"0", ",", "7">>), Txt(AUC_ROC),
                 Txt(<<"M", "R", "I">>)),
             Row(Txt(<<"0", ",", "8">>), Txt(<<"0", ".", "9">>), Txt(AUC),
                 Txt(<<"C", "T">>))>>,
           <<Txt(<<"1", "0">>), Txt(<<"1", "0", "0">>)>>),
     Table(AllColumns,
           <<Row(Txt(<<"0", ".", "6">>), Txt(<<"0", ",", "7">>), Txt(Accuracy),
                 Txt(<<"M", "R", "I">>)),
             Row(Txt(<<"x">>), Txt(<<"0", ".", "9">>), Txt(AUC), Txt(<<"C", "T">>))>>,
           <<Txt(<<"1", "0">>), Txt(<<"x">>)>>),
     Table(AllColumns,
           <<Row(Txt(<<"0", ".", "8">>), Txt(<<"0", ",", ",", "9">>), Txt(Accuracy),
                 Txt(<<"C", "T">>)),
             Row(Txt(<<"0", ",", "8">>), Txt(<<"0", ".", "9">>), Txt(AUC),
                 Txt(<<"C", "T">>)),
             Row(NA, Txt(<<"0", ".", "9">>), Txt(AUC), Txt(<<"C", "T">>))>>,
           <<Txt(<<"1", "0">>), NA, Txt(<<"1", "0", "0">>)>>),
     Table(AllColumns,
           <<Row(Txt(<<"0", ".", "6">>), Txt(<<"0", ",", "7">>), NA,
                 Txt(<<"M", "R", "I">>))>>,
           <<NA>>),
     Table(AllColumns, <<>>, <<>>)}

InitRun ==
    /\ entry \in EntryPoints
    /\ source \in IF entry.kind = "prisma" THEN {Unset} ELSE RunSources
    /\ pc = "start"
    /\ figure = "none"
    /\ exc = Unset
    /\ printed = FALSE
    /\ FsIdle
    /\ NormIdle /\ ValidIdle /\ PrepIdle /\ ScatIdle /\ SummIdle

\* An exception of the given type leaves the current statement.
Raise(type, cause) ==
    /\ exc' = [kind |-> "exception", type |-> type, cause |-> cause]
    /\ pc' = "raised"

\* load_csv_file(data_dir) / boxplot.load_data(data_path)
LoadData ==
    /\ pc = "start" /\ entry.kind # "prisma"
    /\ IF ~source.exists
       THEN /\ Raise("FileNotFoundError", "no_data_source")
            /\ UNCHANGED <<validVars, df>>
       ELSE IF entry.name = "boxplot.main" /\ "total_data" \notin source.columns
       THEN /\ Raise("ValueError", "missing_column")
            /\ UNCHANGED <<validVars, df>>
       ELSE /\ dfColumns' = source.columns
            /\ totalData' = source.total
            /\ df' = source.rows
            /\ pc' = IF entry.validates THEN "validate" ELSE "preprocess"
            /\ UNCHANGED <<outcome, exc>>
    /\ UNCHANGED <<prepOut, entry, source, figure, printed,
                   normVars, scatVars, summVars, fsVars>>

\* validate_dataframe(df, required_columns) in scatterplot_perf_comparison.main
ValidateColumns ==
    /\ pc = "validate"
    /\ IF MissingColumns(dfColumns, PerfColumns) # <<>>
       THEN Raise("KeyError", "missing_column")
       ELSE pc' = "preprocess" /\ UNCHANGED exc
    /\ UNCHANGED <<entry, source, figure, printed, normVars, validVars,
                   prepVars, scatVars, summVars, fsVars>>

CauseOf(type) ==
    CASE type = "KeyError" -> "missing_column"
      [] type = "ValueError" -> "unparseable"
      [] OTHER -> "dtype"

\* A preprocessing that cleans the caller's dataset in place.
PreprocessDataInPlace ==
    /\ pc = "preprocess"
    /\ IF entry.kind = "performance"
       THEN LET out == PreprocessPerformanceData(dfColumns, df)
                kept == FilterAuc(DropNaRows(Indexed(df)))
            IN  /\ prepOut' = out
                /\ outcome' = outcome
                /\ totalData' = totalData
                /\ df' = IF out.raised = "KeyError" THEN df
                         ELSE [i \in 1..Len(kept) |-> kept[i].value]
                /\ IF out.raised # "none"
                   THEN Raise(out.raised, CauseOf(out.raised))
                   ELSE pc' = "render" /\ UNCHANGED exc
       ELSE LET out == PreprocessSampleSizeDataOf(dfColumns, totalData)
                kept == DropNa(Indexed(totalData))
            IN  /\ outcome' = out
                /\ prepOut' = prepOut
                /\ df' = df
                /\ totalData' = [i \in 1..Len(kept) |-> kept[i].value]
                /\ IF out.raised # "none"
                   THEN Raise(out.raised,
                              IF out.condition = "missing_columns"
                              THEN "missing_column" ELSE "unparseable")
                   ELSE pc' = "render" /\ UNCHANGED exc
    /\ UNCHANGED <<dfColumns, entry, source, figure, printed,
                   normVars, scatVars, summVars, fsVars>>

\* The preprocessing statements of main.
PreprocessData ==
    /\ pc = "preprocess"
    /\ IF entry.kind = "performance"
       THEN LET out == PreprocessPerformanceData(dfColumns, df)
            IN  /\ prepOut' = out
                /\ outcome' = outcome
                /\ IF out.raised # "none"
                   THEN Raise(out.raised, CauseOf(out.raised))
                   ELSE pc' = "render" /\ UNCHANGED exc
       ELSE LET out == PreprocessSampleSizeDataOf(dfColumns, totalData)
            IN  /\ outcome' = out
                /\ prepOut' = prepOut
                /\ IF out.raised # "none"
                   THEN Raise(out.raised,
                              IF out.condition = "missing_columns"
                              THEN "missing_column" ELSE "unparseable")
                   ELSE pc' = "render" /\ UNCHANGED exc
    /\ UNCHANGED <<dfColumns, totalData, df, entry, source, figure, printed,
                   normVars, scatVars, summVars, fsVars>>

\* The three series handed to the scatter renderer, row by row.
PairedOf(out) ==
    [i \in 1..Len(out.scores) |->
        [unimodal   |-> out.scores[i].unimodal_best_score,
         multimodal |-> out.scores[i].multimodal_best_score,
         modality   |-> out.modalities[i].value]]

SeriesValues(series) == [i \in 1..Len(series) |-> series[i].value]

\* A renderer that opens the figure before it computes the statistics.
RenderFigureBeforeStatistics ==
    /\ \/ pc = "render"
       \/ pc = "start" /\ entry.kind = "prisma"
    /\ IF entry.kind = "performance"
       THEN /\ paired' = PairedOf(prepOut)
            /\ plot' = CreatePerformancePlotOf(PairedOf(prepOut))
            /\ figure' = "open"
            /\ pc' = "save"
            /\ UNCHANGED <<summVars, exc>>
       ELSE IF entry.kind = "sample"
       THEN /\ data' = SeriesValues(outcome.series)
            /\ stats' = FiveNumberSummary(SeriesValues(outcome.series))
            /\ IF outcome.series = <<>>
               THEN Raise("ValueError", "empty_series") /\ figure' = "open"
               ELSE figure' = "open" /\ pc' = "save" /\ UNCHANGED exc
            /\ UNCHANGED scatVars
       ELSE /\ plot' = CreatePrismaDiagram
            /\ figure' = "open"
            /\ pc' = "save"
            /\ UNCHANGED <<paired, summVars, exc>>
    /\ UNCHANGED <<entry, source, printed, normVars, validVars, prepVars, fsVars>>

\* create_performance_plot / plot_performance up to the legend,
\* create_sample_size_plot / compute_statistics and create_violin_plot,
\* create_prisma_diagram: the statistics, then the figure.
RenderFigure ==
    /\ \/ pc = "render"
       \/ pc = "start" /\ entry.kind = "prisma"
    /\ IF entry.kind = "performance"
       THEN /\ paired' = PairedOf(prepOut)
            /\ plot' = CreatePerformancePlotOf(PairedOf(prepOut))
            /\ figure' = "open"
            /\ pc' = "save"
            /\ UNCHANGED <<summVars, exc>>
       ELSE IF entry.kind = "sample"
       THEN /\ data' = SeriesValues(outcome.series)
            /\ stats' = FiveNumberSummary(SeriesValues(outcome.series))
            /\ IF outcome.series = <<>>
               THEN Raise("ValueError", "empty_series") /\ UNCHANGED figure
               ELSE figure' = "open" /\ pc' = "save" /\ UNCHANGED exc
            /\ UNCHANGED scatVars
       ELSE /\ plot' = CreatePrismaDiagram
            /\ figure' = "open"
            /\ pc' = "save"
            /\ UNCHANGED <<paired, summVars, exc>>
    /\ UNCHANGED <<entry, source, printed, normVars, validVars, prepVars, fsVars>>

\* What a failed mkdir or savefig raises: an OSError, which may be the
\* FileNotFoundError subclass.
IoErrors == {"OSError", "FileNotFoundError"}

\* An export wrapped so that the figure is closed when it fails.
SaveStepClosingOnError ==
    /\ pc = "save"
    /\ \E gap \in Gaps, d \in {0, MaxWriteSeconds}, fail \in WriteFailures :
         /\ (fail # "none" => d = 0)
         /\ Export(entry.export, gap, d, fail)
         /\ IF fail = "none"
            THEN pc' = "close" /\ UNCHANGED <<exc, figure>>
            ELSE /\ \E type \in IoErrors : Raise(type, "io")
                 /\ figure' = "closed"
    /\ UNCHANGED <<entry, source, printed, normVars, validVars,
                   prepVars, scatVars, summVars>>

\* save_figure(fig, output_dir, ...) / the save steps of plot_performance
SaveStep ==
    /\ pc = "save"
    /\ \E gap \in Gaps, d \in {0, MaxWriteSeconds}, fail \in WriteFailures :
         /\ (fail # "none" => d = 0)
         /\ Export(entry.export, gap, d, fail)
         /\ IF fail = "none"
            THEN pc' = "close" /\ UNCHANGED exc
            ELSE \E type \in IoErrors : Raise(type, "io")
    /\ UNCHANGED <<entry, source, figure, printed, normVars, validVars,
                   prepVars, scatVars, summVars>>

\* plt.close(fig) / plt.close()
CloseFigure ==
    /\ pc = "close"
    /\ figure' = "closed"
    /\ pc' = "returned"
    /\ UNCHANGED <<entry, source, exc, printed, normVars, validVars, prepVars,
                   scatVars, summVars, fsVars>>

\* except (FileNotFoundError, KeyError, ValueError) as e: print(f"Error: {e}")
HandleError ==
    /\ pc = "raised"
    /\ entry.try /\ exc.type \in Caught
    /\ printed' = TRUE
    /\ pc' = "returned"
    /\ UNCHANGED <<entry, source, figure, exc, normVars, validVars, prepVars,
                   scatVars, summVars, fsVars>>

\* No handler matches: the exception leaves main.
PropagateError ==
    /\ pc = "raised"
    /\ ~(entry.try /\ exc.type \in Caught)
    /\ pc' = "escaped"
    /\ UNCHANGED <<entry, source, figure, exc, printed, normVars, validVars,
                   prepVars, scatVars, summVars, fsVars>>

NextRun ==
    \/ LoadData
    \/ ValidateColumns
    \/ PreprocessData
    \/ RenderFigure
    \/ SaveStep
    \/ CloseFigure
    \/ HandleError
    \/ PropagateError

SpecRun == InitRun /\ [][NextRun]_vars

\* The run is over: main returned, or an exception left it.
RunEnded == pc \in {"returned", "escaped"}

\* The three error kinds of the propagation policy.
PolicyErrors == {"no_data_source", "missing_column", "unparseable"}

\* C10, as stated: in every entry point, a run that met a missing data
\* source, a missing required column or an unparseable numeric value ends
\* with the error caught in main and printed, main returning normally, and
\* no output file written; the error never leaves main.
C10_AsStated ==
    (RunEnded /\ exc # Unset /\ exc.cause \in PolicyErrors)
        => /\ pc = "returned"
           /\ printed
           /\ files = {}
           /\ saves = <<>>

\* C10, the entry points whose body is inside try/except: there the policy
\* errors are caught and printed, main returns and nothing is written.
C10_HandledWhereTried ==
    (RunEnded /\ entry.try /\ exc # Unset /\ exc.cause \in PolicyErrors)
        => /\ pc = "returned"
           /\ printed
           /\ files = {}
           /\ saves = <<>>

\* C10: boxplot.main met a policy error and the exception left main.
C10_Escaped ==
    /\ entry.name = "boxplot.main"
    /\ pc = "escaped"
    /\ exc # Unset /\ exc.cause \in PolicyErrors
    /\ ~printed

\* C11, as stated: whenever preprocess_sample_size_data returns, the
\* returned series is non-empty, and the summary statistics are only ever
\* computed over a non-empty series.
C11_AsStated ==
    entry.name = "generate_sample_size_plot.main" =>
        /\ (outcome # Unset /\ outcome.raised = "none") => outcome.series # <<>>
        /\ stats # Unset => data # <<>>

\* C11, the rest of the statement: the returned series holds exactly the
\* non-missing total_data cells, each as its number, in the original order
\* and under its original row label.
C11_SeriesIsCleanedColumn ==
    (entry.name = "generate_sample_size_plot.main"
        /\ outcome # Unset /\ outcome.raised = "none") =>
        LET series == outcome.series
        IN  /\ \A i \in 1..Len(series) :
                 /\ series[i].index \in 1..Len(totalData)
                 /\ ~totalData[series[i].index].na
                 /\ series[i].value = ParseFloat(totalData[series[i].index].s)
            /\ \A i, j \in 1..Len(series) :
                 i < j => series[i].index < series[j].index
            /\ \A k \in 1..Len(totalData) :
                 ~totalData[k].na => \E i \in 1..Len(series) : series[i].index = k

\* C11: preprocess_sample_size_data returned an empty series (every
\* total_data cell was missing) and the statistics were then taken over it,
\* which failed.
C11_EmptySeriesSummarised ==
    /\ entry.name = "generate_sample_size_plot.main"
    /\ Len(totalData) > 0
    /\ outcome # Unset /\ outcome.raised = "none" /\ outcome.series = <<>>
    /\ stats # Unset /\ stats.raised = "ValueError"
    /\ data = <<>>

\* Claim-side geometry.
PointEq(p, q) == NumEq(p.x, q.x) /\ NumEq(p.y, q.y)

Between(lo, v, hi) == NumLe(lo, v) /\ NumLe(v, hi)

\* p lies on the boundary of the rectangle b.
OnEdge(p, b) ==
    LET right == NumAdd(b.x, b.width)
        top   == NumAdd(b.y, b.height)
    IN  \/ (NumEq(p.x, b.x) \/ NumEq(p.x, right)) /\ Between(b.y, p.y, top)
        \/ (NumEq(p.y, b.y) \/ NumEq(p.y, top)) /\ Between(b.x, p.x, right)

VerticalLinks ==
    {<<"identification", "eligibility_title_abstract">>,
     <<"eligibility_title_abstract", "eligibility_full_text">>,
     <<"eligibility_full_text", "included">>}

HorizontalLinks ==
    {<<"identification", "duplicates_removed">>,
     <<"eligibility_title_abstract", "excluded_title_abstract">>,
     <<"eligibility_full_text", "excluded_full_text">>}

\* Arrow a of diagram d realises the link from box l[1] to box l[2]: a
\* segment of non-zero length, tail on an edge of the source, head on an
\* edge of the target, and for a vertical link bottom anchor to top anchor.
Realises(d, a, l) ==
    /\ ~PointEq(a.xytext, a.xy)
    /\ OnEdge(a.xytext, d.boxes[l[1]])
    /\ OnEdge(a.xy, d.boxes[l[2]])
    /\ l \in VerticalLinks =>
          /\ PointEq(a.xytext, d.box_positions[l[1]][3])
          /\ PointEq(a.xy, d.box_positions[l[2]][2])
          /\ NumEq(a.xytext.x, a.xy.x) /\ NumLt(a.xy.y, a.xytext.y)
    /\ l \in HorizontalLinks => NumEq(a.xytext.y, a.xy.y)

PrismaRendered == entry # Unset /\ entry.kind = "prisma" /\ plot # Unset

\* C12, as stated: the builder draws exactly seven boxes and every arrow it
\* draws is a non-zero straight segment realising one of the three vertical
\* or three horizontal links, each link being drawn.
C12_AsStated ==
    PrismaRendered =>
        /\ Cardinality(DOMAIN plot.boxes) = 7
        /\ \A i \in 1..Len(plot.arrows) :
              \E l \in VerticalLinks \cup HorizontalLinks :
                  Realises(plot, plot.arrows[i], l)
        /\ \A l \in VerticalLinks \cup HorizontalLinks :
              \E i \in 1..Len(plot.arrows) : Realises(plot, plot.arrows[i], l)

\* C12, what the builder does draw: seven boxes; seven arrows, of which
\* the first has its tail and its head both at the bottom anchor of the
\* identification box, and the other six realise the six links, one each.
C12_SixLinksAndOneDegenerateArrow ==
    PrismaRendered =>
        /\ Cardinality(DOMAIN plot.boxes) = 7
        /\ Len(plot.arrows) = 7
        /\ PointEq(plot.arrows[1].xytext, plot.arrows[1].xy)
        /\ PointEq(plot.arrows[1].xy, plot.box_positions["identification"][3])
        /\ \A i \in 2..Len(plot.arrows) :
              \E l \in VerticalLinks \cup HorizontalLinks :
                  Realises(plot, plot.arrows[i], l)
        /\ \A l \in VerticalLinks \cup HorizontalLinks :
              Cardinality({i \in 2..Len(plot.arrows) :
                              Realises(plot, plot.arrows[i], l)}) = 1

\* C12: a rendered PRISMA diagram whose first arrow has zero length.
C12_ZeroLengthArrow ==
    /\ PrismaRendered
    /\ figure = "open"
    /\ plot.arrows[1].xytext = plot.arrows[1].xy

\* Claim-side vocabulary: the row has a score cell whose text is not a
\* number in either spelling.
HasUnparseableScore(r) ==
    \/ ~r.unimodal_best_score.na /\ ~IsNumericText(r.unimodal_best_score.s)
    \/ ~r.multimodal_best_score.na /\ ~IsNumericText(r.multimodal_best_score.s)

Survives(r) == RowComplete(r) /\ HasUpperAUC(r.evaluation_metric.s)

\* C13: preprocess_performance_data fails on the conversion exactly when
\* some row with an unparseable score survives both the missing-value drop
\* and the "AUC" filter; an unparseable score in a row that is dropped or
\* filtered out never makes it fail, and what is returned holds converted
\* scores only.
C13_ConversionFailsIffSurvivorUnparseable ==
    prepOut # Unset =>
        /\ prepOut.raised = "ValueError"
              <=> \E i \in 1..Len(df) : Survives(df[i]) /\ HasUnparseableScore(df[i])
        /\ prepOut.raised = "none" =>
              \A i \in 1..Len(prepOut.scores) :
                  /\ prepOut.scores[i].unimodal_best_score.ok
                  /\ prepOut.scores[i].multimodal_best_score.ok

\* C13 witness: a dataset with an unparseable score in a row filtered out
\* on the metric and another in a row dropped for a missing value, next to
\* a surviving row: the call returned the surviving row.
C13_Witness ==
    /\ prepOut # Unset /\ prepOut.raised = "none"
    /\ Len(prepOut.scores) = 1
    /\ \E i, j \in 1..Len(df) :
          /\ HasUnparseableScore(df[i]) /\ RowComplete(df[i])
          /\ ~HasUpperAUC(df[i].evaluation_metric.s)
          /\ HasUnparseableScore(df[j]) /\ ~RowComplete(df[j])

\* The two entry points of the scatter-plot pipeline.
ScatterPipeline == entry # Unset /\ entry.kind = "performance"

\* C14: in the scatter-plot pipeline nothing closes the figure on the error
\* path: a run that ended on an error raised after the figure was created
\* (here by the export) ended with that figure still open, whether main
\* caught the error or the error left main.
C14_FigureLeftOpenOnErrorPath ==
    (ScatterPipeline /\ RunEnded /\ exc # Unset /\ exc.cause = "io")
        => figure = "open"

\* C14 witness: generate_performance_plot.main or
\* scatterplot_perf_comparison.main created the figure, the export failed
\* after the first file was written, and the error left main with the
\* figure open.
C14_Witness ==
    /\ ScatterPipeline
    /\ pc = "escaped"
    /\ exc # Unset /\ exc.cause = "io"
    /\ figure = "open"
    /\ Len(saves) = 1 /\ Len(saves[1].written) = 1

\* Claim-side vocabulary for the legend.
Categories == {paired[i].modality : i \in 1..Len(paired)}

FirstSeen(m) ==
    CHOOSE i \in 1..Len(paired) :
        paired[i].modality = m /\ \A j \in 1..(i - 1) : paired[j].modality # m

RECURSIVE SumCounts(_)
SumCounts(entries) ==
    IF entries = <<>> THEN 0 ELSE entries[1].count + SumCounts(Tail(entries))

CategoryEntries == SubSeq(plot.legend, 1, Len(plot.legend) - 2)

\* One entry per category in first-seen order, labelled with its row count
\* and coloured as the points of that category, then the two reference
\* lines; the counts sum to the total.
LegendEnumeratesCategories ==
    LET entries == CategoryEntries
        n == Len(entries)
    IN  /\ Len(plot.legend) = Cardinality(Categories) + 2
        /\ {entries[k].label : k \in 1..n} = Categories
        /\ \A k \in 1..n :
              /\ entries[k].kind = "modality"
              /\ entries[k].count =
                     Cardinality({i \in 1..Len(paired) :
                                     paired[i].modality = entries[k].label})
              /\ \A i \in 1..Len(paired) :
                     paired[i].modality = entries[k].label
                         => plot.modality_colors[i] = entries[k].color
        /\ \A k, l \in 1..n :
              k < l => FirstSeen(entries[k].label) < FirstSeen(entries[l].label)
        /\ plot.legend[n + 1].kind = "line"
        /\ plot.legend[n + 1].label = "y = x (Equal Performance)"
        /\ plot.legend[n + 2].kind = "line"
        /\ plot.legend[n + 2].label = "Median Threshold"
        /\ SumCounts(entries) = plot.total_studies

ColorsDistinct ==
    \A k, l \in 1..Len(CategoryEntries) :
        k # l => CategoryEntries[k].color # CategoryEntries[l].color

\* C15, as stated: the legend enumerates the categories as above and every
\* category has a color of its own.
C15_AsStated ==
    plot # Unset => LegendEnumeratesCategories /\ ColorsDistinct

\* C15, what the renderer gives: the legend enumerates the categories as
\* above; the colors are pairwise different exactly when there are at most
\* as many categories as the palette has entries.
C15_LegendAndPaletteLimit ==
    plot # Unset =>
        /\ LegendEnumeratesCategories
        /\ ColorsDistinct <=> Cardinality(Categories) <= Tab20Size

\* C15: a rendered plot of twenty-one categories whose last two legend
\* entries have the same color.
C15_SharedColor ==
    /\ plot # Unset
    /\ Cardinality(Categories) = Tab20Size + 1
    /\ plot.legend[Tab20Size].label # plot.legend[Tab20Size + 1].label
    /\ plot.legend[Tab20Size].color = plot.legend[Tab20Size + 1].color

\* The three script entry points.
ScriptRun ==
    /\ entry # Unset
    /\ entry.name \in {"generate_performance_plot.main",
                       "generate_sample_size_plot.main",
                       "generate_prisma.main"}

\* Loading and preprocessing have succeeded (there is none for the diagram).
LoadedAndPreprocessed ==
    CASE entry.kind = "performance" -> prepOut # Unset /\ prepOut.raised = "none"
      [] entry.kind = "sample" ->
            /\ outcome # Unset /\ outcome.raised = "none"
            /\ stats # Unset /\ stats.raised = "none"
      [] OTHER -> TRUE

\* The export of the run returned, having written the vector file and then
\* the raster file, both still there.
BothFilesWritten ==
    /\ Len(saves) = 1
    /\ saves[1].raised = "none"
    /\ Len(saves[1].written) = 2
    /\ saves[1].written[1].ext = "svg" /\ saves[1].written[2].ext = "png"
    /\ \A i \in 1..2 : \E f \in files : PathOf(f) = saves[1].written[i]

OrderInEachState ==
    ScriptRun =>
        /\ figure # "none" => LoadedAndPreprocessed
        /\ (exc # Unset /\ exc.cause # "io") => figure = "none" /\ files = {}
        /\ figure = "closed" => BothFilesWritten
        /\ (pc = "returned" /\ exc = Unset) => figure = "closed"
        /\ pc = "escaped" => exc # Unset

OrderInEachStep ==
    ScriptRun =>
        /\ files' # files => figure = "open" /\ figure' = "open"
        /\ figure' # figure =>
              \/ figure = "none" /\ figure' = "open"
              \/ figure = "open" /\ figure' = "closed" /\ pc' = "returned"
        /\ figure = "closed" => figure' = "closed" /\ files' = files

\* C16: in a run of a script entry point the figure is created only after
\* loading and preprocessing have succeeded (a failure there leaves no
\* figure and no file), files are written only while the figure is open,
\* the .svg and then the .png are written before the figure is closed, a
\* run without error returns with the figure closed, the figure is closed
\* in one step from open and never reopened, and nothing is written after.
C16_OrderWithinRun == []OrderInEachState /\ [][OrderInEachStep]_vars

\* C16 witness: a script run that returned without error: the figure is
\* closed and the .svg and the .png it wrote are there.
C16_Witness ==
    /\ ScriptRun
    /\ pc = "returned" /\ exc = Unset
    /\ figure = "closed"
    /\ BothFilesWritten
    /\ entry.kind = "sample" /\ Len(data) = 2

\* The entry points that call preprocess_performance_data and
\* preprocess_sample_size_data.
CallsPreprocessing ==
    /\ entry # Unset
    /\ entry.name \in {"generate_performance_plot.main",
                       "generate_sample_size_plot.main"}

\* The caller's dataset is the table that was loaded, cell for cell.
DatasetAsLoaded ==
    /\ dfColumns = source.columns
    /\ df = source.rows
    /\ totalData = source.total

\* C17: a call of preprocess_performance_data or
\* preprocess_sample_size_data, whether it returns or raises, leaves the
\* caller's dataset as it was: the step changes no column, row or cell, and
\* from the call on the dataset is still the loaded table (score cells in
\* their text form, dropped and filtered rows present).
C17_CallerDatasetUnchanged ==
    /\ [][(CallsPreprocessing /\ pc = "preprocess")
             => df' = df /\ dfColumns' = dfColumns /\ totalData' = totalData]_vars
    /\ []((CallsPreprocessing /\ (prepOut # Unset \/ outcome # Unset))
             => DatasetAsLoaded)

\* C17 witness: preprocess_performance_data returned one of three rows,
\* its score converted from "0,8", and the caller's dataset still has the
\* three rows with the comma in place.
C17_Witness ==
    /\ CallsPreprocessing
    /\ prepOut # Unset /\ prepOut.raised = "none"
    /\ Len(df) = 3 /\ Len(prepOut.scores) = 1
    /\ prepOut.scores[1].index = 2
    /\ df[2].unimodal_best_score.s = <<"0", ",", "8">>
    /\ NumEq(prepOut.scores[1].unimodal_best_score, Num(8, 1))

====
